---- MODULE Spec2Model ----
(***************************************************************************)
(* Model of fat-date-time (src/src/lib.rs): the two decoders               *)
(* parse_fat_time and parse_fat_date over every 16-bit word.               *)
(*                                                                         *)
(* A state is one input word together with the outcome of each decoder on  *)
(* it.  An outcome is a record whose tag is "Pending" (not yet called),    *)
(* "None", "Some" or "Panic" (the panic! arm after the final constructor). *)
(* Time::from_hms and Date::from_calendar_date belong to the `time` crate; *)
(* they are modelled by their documented range checks.                     *)
(***************************************************************************)
EXTENDS Integers, Naturals, Sequences, FiniteSets, TLC

VARIABLES word, time, date

vars == <<word, time, date>>

\* u16: the parameter type of both decoders.
U16Bits == 16
U16 == 0 .. (2^U16Bits - 1)

\* ---------------------------------------------------------------------
\* Integer primitives used by the decoders
\* ---------------------------------------------------------------------

\* x >> n on an unsigned integer
Shr(x, n) == x \div (2^n)

\* a & b on unsigned integers, bit by bit
RECURSIVE BitAnd(_, _)
BitAnd(a, b) ==
    IF a = 0 \/ b = 0 THEN 0
    ELSE (a % 2) * (b % 2) + 2 * BitAnd(a \div 2, b \div 2)

\* `as u8`: truncation to the low eight bits
AsU8(x) == x % 256

\* ---------------------------------------------------------------------
\* Outcomes
\* ---------------------------------------------------------------------

Pending == [tag |-> "Pending"]
None == [tag |-> "None"]
Panic == [tag |-> "Panic"]
SomeTime(h, m, s) == [tag |-> "Some", hour |-> h, minute |-> m, second |-> s]
SomeDate(y, mo, d) == [tag |-> "Some", year |-> y, month |-> mo, day |-> d]

\* ---------------------------------------------------------------------
\* The `time` crate constructors called by the decoders
\* ---------------------------------------------------------------------

\* Time::from_hms: Ok iff hour <= 23, minute <= 59, second <= 59
TimeFromHms(h, m, s) ==
    IF h <= 23 /\ m <= 59 /\ s <= 59
    THEN [ok |-> TRUE, hour |-> h, minute |-> m, second |-> s]
    ELSE [ok |-> FALSE]

\* Gregorian leap-year rule used by Date::from_calendar_date
is_leap_year(y) == (y % 4 = 0) /\ ((y % 100 # 0) \/ (y % 400 = 0))

\* Length of month mo (1..12) in year y
days_in_month(y, mo) ==
    IF mo \in {1, 3, 5, 7, 8, 10, 12} THEN 31
    ELSE IF mo \in {4, 6, 9, 11} THEN 30
    ELSE IF is_leap_year(y) THEN 29 ELSE 28

\* Date::from_calendar_date: Ok iff the year is in the crate's range and
\* 1 <= day <= length of the month
DateFromCalendarDate(y, mo, d) ==
    IF y >= -9999 /\ y <= 9999 /\ d >= 1 /\ d <= days_in_month(y, mo)
    THEN [ok |-> TRUE, year |-> y, month |-> mo, day |-> d]
    ELSE [ok |-> FALSE]

\* ---------------------------------------------------------------------
\* parse_fat_time
\* ---------------------------------------------------------------------

time_hours_shift10(dos_time) == BitAnd(AsU8(Shr(dos_time, 10)), 31)

\* let hours = ((dos_time >> 11) as u8) & 0x1F;
time_hours(dos_time) == BitAnd(AsU8(Shr(dos_time, 11)), 31)

\* let minutes = ((dos_time >> 5) as u8) & 0x3F;
time_minutes(dos_time) == BitAnd(AsU8(Shr(dos_time, 5)), 63)

\* let seconds = (dos_time & 0x1F) as u8;
time_seconds(dos_time) == AsU8(BitAnd(dos_time, 31))

\* The final match on the constructor's result: Ok -> Some, Err -> panic!
TimeOutcome(r) ==
    IF r.ok THEN SomeTime(r.hour, r.minute, r.second) ELSE Panic

\* Variant: the two-second count is passed on without doubling
parse_fat_time_no_double(dos_time) ==
    LET hours == time_hours(dos_time)
        minutes == time_minutes(dos_time)
        seconds == time_seconds(dos_time)
    IN  IF hours > 23 THEN None
        ELSE IF minutes > 59 THEN None
        ELSE IF seconds > 29 THEN None
        ELSE TimeOutcome(TimeFromHms(hours, minutes, seconds))

\* Variant: a zero word is treated as reserved, as in parse_fat_date
parse_fat_time_zero_reserved(dos_time) ==
    LET hours == time_hours(dos_time)
        minutes == time_minutes(dos_time)
        seconds == time_seconds(dos_time)
    IN  IF dos_time = 0 THEN None
        ELSE IF hours > 23 THEN None
        ELSE IF minutes > 59 THEN None
        ELSE IF seconds > 29 THEN None
        ELSE TimeOutcome(TimeFromHms(hours, minutes, seconds * 2))

\* Variant: the two-second count check is off by one
parse_fat_time_seconds28(dos_time) ==
    LET hours == time_hours(dos_time)
        minutes == time_minutes(dos_time)
        seconds == time_seconds(dos_time)
    IN  IF hours > 23 THEN None
        ELSE IF minutes > 59 THEN None
        ELSE IF seconds > 28 THEN None
        ELSE TimeOutcome(TimeFromHms(hours, minutes, seconds * 2))

\* pub fn parse_fat_time(dos_time: u16) -> Option<Time>
\* seconds <= 29 at the multiplication, so seconds * 2 fits in u8.
parse_fat_time(dos_time) ==
    LET hours == time_hours(dos_time)
        minutes == time_minutes(dos_time)
        seconds == time_seconds(dos_time)
    IN  IF hours > 23 THEN None
        ELSE IF minutes > 59 THEN None
        ELSE IF seconds > 29 THEN None
        ELSE TimeOutcome(TimeFromHms(hours, minutes, seconds * 2))

\* ---------------------------------------------------------------------
\* parse_fat_date
\* ---------------------------------------------------------------------

date_year_offset_shift8(dos_date) == BitAnd(Shr(dos_date, 8), 127)

\* let year: i32 = ((dos_date >> 9) & 0x7F) as i32;
date_year_offset(dos_date) == BitAnd(Shr(dos_date, 9), 127)

date_month_shift4(dos_date) == BitAnd(Shr(dos_date, 4), 15)

\* let month = (dos_date >> 5) & 0x0f;
date_month(dos_date) == BitAnd(Shr(dos_date, 5), 15)

\* let day = (dos_date & 0x1F) as u8;
date_day(dos_date) == AsU8(BitAnd(dos_date, 31))

\* The final match on the constructor's result: Ok -> Some, Err -> panic!
DateOutcome(r) ==
    IF r.ok THEN SomeDate(r.year, r.month, r.day) ELSE Panic

\* Variant: the day range check admits 0
parse_fat_date_day0(dos_date) ==
    IF dos_date = 0 THEN None
    ELSE LET year0 == date_year_offset(dos_date)
             month == date_month(dos_date)
             day == date_day(dos_date)
         IN  IF ~(year0 >= 0 /\ year0 <= 127) THEN None
             ELSE IF month \notin 1..12 THEN None
             ELSE IF ~(day >= 0 /\ day <= 31) THEN None
             ELSE DateOutcome(DateFromCalendarDate(year0 + 1980, month, day))

\* pub fn parse_fat_date(dos_date: u16) -> Option<Date>
\* The match on month maps 1..12 to January..December (kept as the month
\* number) and returns None for every other value.
parse_fat_date(dos_date) ==
    IF dos_date = 0 THEN None
    ELSE LET year0 == date_year_offset(dos_date)
             month == date_month(dos_date)
             day == date_day(dos_date)
         IN  IF ~(year0 >= 0 /\ year0 <= 127) THEN None
             ELSE IF month \notin 1..12 THEN None
             ELSE IF ~(day >= 1 /\ day <= 31) THEN None
             ELSE DateOutcome(DateFromCalendarDate(year0 + 1980, month, day))

\* ---------------------------------------------------------------------
\* State machine: one word, each decoder applied to it once
\* ---------------------------------------------------------------------

Init ==
    /\ word \in U16
    /\ time = Pending
    /\ date = Pending

ParseFatTime ==
    /\ time.tag = "Pending"
    /\ time' = parse_fat_time(word)
    /\ UNCHANGED <<word, date>>

ParseFatDate ==
    /\ date.tag = "Pending"
    /\ date' = parse_fat_date(word)
    /\ UNCHANGED <<word, time>>

Next == ParseFatTime \/ ParseFatDate

Spec == Init /\ [][Next]_vars

TypeOK ==
    /\ word \in U16
    /\ time.tag \in {"Pending", "None", "Some", "Panic"}
    /\ date.tag \in {"Pending", "None", "Some", "Panic"}

\* ---------------------------------------------------------------------
\* Properties
\* ---------------------------------------------------------------------

\* The bit field of `width` bits starting at bit `lo` of w, by arithmetic
Field(w, lo, width) == (w \div (2^lo)) % (2^width)

\* Calendar length of month M in year y (Gregorian)
MonthLength(y, M) ==
    CASE M = 2 -> IF (y % 4 = 0 /\ y % 100 # 0) \/ y % 400 = 0 THEN 29 ELSE 28
      [] M \in {4, 6, 9, 11} -> 30
      [] OTHER -> 31

TimeCalled == time.tag # "Pending"
DateCalled == date.tag # "Pending"

\* C1: for every 16-bit word, parse_fat_date yields either None or a date
\* (y, M, d) with 1980 <= y <= 2107, M in 1..12 and d a legal day of month
\* M in year y.
C1_DateNoneOrLegal ==
    DateCalled =>
        \/ date.tag = "None"
        \/ /\ date.tag = "Some"
           /\ date.year \in 1980..2107
           /\ date.month \in 1..12
           /\ date.day \in 1..MonthLength(date.year, date.month)

\* C2: a word whose month field is in 1..12 and whose day field is in
\* 1..31 but exceeds the length of that month in year 1980 + year_offset
\* makes parse_fat_date return None.
C2_OverlongDayIsNone ==
    (/\ DateCalled
     /\ Field(word, 5, 4) \in 1..12
     /\ Field(word, 0, 5) \in 1..31
     /\ Field(word, 0, 5) > MonthLength(1980 + Field(word, 9, 7), Field(word, 5, 4)))
    => date.tag = "None"

\* C3: neither decoder ever reaches the panic arm that follows its final
\* constructor call, for any 16-bit word.
C3_NeverPanics == time.tag # "Panic" /\ date.tag # "Panic"

\* C4: when parse_fat_date succeeds with (y, M, d), y - 1980 is the 7-bit
\* field at bit 9, M the 4-bit field at bit 5 and d the low 5 bits.
C4_DateFields ==
    date.tag = "Some" =>
        /\ date.year - 1980 = Field(word, 9, 7)
        /\ date.month = Field(word, 5, 4)
        /\ date.day = Field(word, 0, 5)

\* 0xBF7D decodes to 2075-11-29
C4_Witness == word = 49021 /\ date = SomeDate(2075, 11, 29)

\* C5: when parse_fat_time succeeds with (h, m, s), h is the 5-bit field
\* at bit 11, m the 6-bit field at bit 5 and s twice the low 5 bits.
C5_TimeFields ==
    time.tag = "Some" =>
        /\ time.hour = Field(word, 11, 5)
        /\ time.minute = Field(word, 5, 6)
        /\ time.second = Field(word, 0, 5) * 2

\* 0x477D decodes to 08:59:58
C5_Witness == word = 18301 /\ time = SomeTime(8, 59, 58)

\* C6: for every 16-bit word, parse_fat_time yields either None or a
\* triple (h, m, s) with h in 0..23, m in 0..59 and s even in 0..58.
C6_TimeNoneOrInRange ==
    TimeCalled =>
        \/ time.tag = "None"
        \/ /\ time.tag = "Some"
           /\ time.hour \in 0..23
           /\ time.minute \in 0..59
           /\ time.second \in 0..58
           /\ time.second % 2 = 0

\* 0xBF7D decodes to the latest time 23:59:58
C6_Witness == word = 49021 /\ time = SomeTime(23, 59, 58)

C9_BadMonthOrDayZeroIsNone ==
    (DateCalled /\ (Field(word, 5, 4) \notin 1..12 \/ Field(word, 0, 5) = 0))
    => date.tag = "None"

\* 0xFE20: year offset 127, month 1, day 0
C9_Witness ==
    /\ word = 65056
    /\ Field(word, 5, 4) = 1 /\ Field(word, 0, 5) = 0
    /\ date.tag = "None"

====
